---------------------------- MODULE Spec2Model ----------------------------
(***************************************************************************)
(* A model of the stateful addressing core of UI-Desktop-Vision:           *)
(*   - UIMemory (src/src/memory/persistence.py): the fingerprint store,    *)
(*   - timeout_watchdog (src/src/utils/watchdog.py): the wrapper that      *)
(*     runs a call in a separate process under a deadline,                 *)
(*   - DesktopOracle.get_full_state (src/src/core.py), which runs inside   *)
(*     that wrapper's worker process,                                      *)
(*   - DesktopOracle.execute_action and generate_scene_description         *)
(*     (src/src/core.py), which run in the caller's process, with          *)
(*     VisualVerifier.verify_input (src/src/vision/visual_check.py) and    *)
(*     the backends' click and type_text,                                  *)
(*   - RecoveryPlaybook (src/src/memory/playbook.py): the journal.         *)
(*                                                                         *)
(* Conventions.                                                            *)
(*   - A confidence is an integer number of hundredths (0.8 is 80).        *)
(*   - A Python dict is a TLA+ function; a missing key is a name outside   *)
(*     its DOMAIN.  None is modelled by a flag beside the value.           *)
(*   - src/src/core.py:53 writes @timeout_watchdog(timeout_seconds=5)      *)
(*     while src/src/utils/watchdog.py:13 names the parameter `seconds`;   *)
(*     the deadline's length plays no part below (the deadline may expire  *)
(*     at any moment the queue is empty), so the decorator is modelled as  *)
(*     applied with its deadline.                                          *)
(*   - multiprocessing is modelled with fork semantics: the worker gets a  *)
(*     copy of the caller's objects, shares only the queue and the files   *)
(*     (the SQLite database), and payloads cross the queue unchanged.      *)
(***************************************************************************)
EXTENDS Integers, Sequences, FiniteSets, TLC

VARIABLES
    window,          \* the active window as the OS would report it now
    db,              \* rows of table ui_map: [fingerprint, sem_id, rel_x, rel_y]
    self_ocr,        \* DesktopOracle._ocr in the caller's process
    pc,              \* the caller's position inside wrapper()
    args,            \* the arguments of the call in progress
    queue,           \* multiprocessing.Queue: sequence of <<success, payload>>
    item,            \* what queue.get returned to the wrapper
    outcome,         \* what wrapper() gave its caller
    proc,            \* the worker process: "none", "alive", "exited", "killed"
    sigterm,         \* process.terminate() was called and not yet acted on
    wpc,             \* the worker's position inside worker() / func
    frame,           \* the locals of get_full_state in the worker
    msg,             \* the tuple the worker is about to q.put
    started,         \* history: processes started by this call
    terminate_calls, \* history: process.terminate() calls of this call
    func_calls,      \* history: invocations of func by this call
    analyze_calls,   \* history: analyze_ui invocations of this call
    timeout_at,      \* history: the worker's position when queue.get timed out
    cycle,           \* history: what this get_full_state cycle saw and did
    observed,        \* history: where the last miss cycle observed TrackedId
    hash_in,         \* a pair of WindowMeta values given to generate_hash
    hash_out,        \* the fingerprints generate_hash returned for them
    history,         \* RecoveryPlaybook.history of the running process
    journal,         \* the records in the file data/recovery_journal.json
    resume,          \* what generate_resume_instructions returned, while current
    recorded,        \* history: the records given to this playbook, in order
    retained,        \* history: the journal file as the last restart found it
    restarted,       \* history: the process has been restarted
    steps,           \* history: record_step calls of all processes so far
    recalled,        \* what memory.recall_all last returned, while current
    forgotten,       \* history: fingerprints forgotten and not persisted since
    persisted,       \* history: fingerprints persist_map has been called for
    prev,            \* history: the WindowMeta the previous cycle read
    epc,             \* the caller's position inside a method of DesktopOracle
    ecall,           \* the method called and its arguments
    eresult,         \* what the method returned or raised
    events,          \* history: what the method did in the caller's process
    gate,            \* history: what verify_input was given and answered
    last_outcome,    \* history: outcome and value of the previous execute_action
    verify_in,       \* the arguments given to verify_input called on its own
    txn,             \* a process inside persist_map and its open transaction
    engines          \* history: OCRWrapper objects built for this DesktopOracle

vars == << window, db, self_ocr, pc, args, queue, item, outcome, proc, sigterm,
           wpc, frame, msg, started, terminate_calls, func_calls,
           analyze_calls, timeout_at, cycle, observed, hash_in, hash_out,
           history, journal, resume, recorded, retained, restarted, steps,
           recalled, forgotten, persisted, prev, epc, ecall, eresult, events,
           gate, last_outcome, verify_in, txn, engines >>

-----------------------------------------------------------------------------
(* Bounds of the model *)

\* the longest list of text lines the OCR engine reports for one screenshot
MaxLines == 2

\* the confidence threshold of analyze_ui, in hundredths
ConfidenceThreshold == 80

\* window titles, some holding the separators of the signature
Titles == {"App", "App1", "App|800", "App|1x6"}
Origins == {100, 300}
Widths == {800, 1800}
Heights == {600, 601}

mk_rect(x, y, w, h) == [x |-> x, y |-> y, w |-> w, h |-> h]

mk_meta(title, pid, rect) == [title |-> title, pid |-> pid, rect |-> rect]

\* every WindowMeta the fingerprint is examined on
Metas ==
    { mk_meta(t, p, mk_rect(o, o, w, h)) :
        t \in Titles, p \in {7}, o \in Origins, w \in Widths, h \in Heights }
    \cup { mk_meta("App", 8, mk_rect(100, 100, 800, 600)) }

\* the windows the desktop of the orchestrator runs shows: one application
\* window at two places and in two sizes
Desktop ==
    { mk_meta("App", 7, mk_rect(100, 100, 800, 600)),
      mk_meta("App", 7, mk_rect(300, 300, 800, 600)),
      mk_meta("App", 7, mk_rect(100, 100, 1800, 600)) }

NoMeta == mk_meta("", 0, mk_rect(0, 0, 0, 0))

EmptyMap == [k \in {} |-> k]


NoCache == [none |-> TRUE, map |-> EmptyMap]

-----------------------------------------------------------------------------
(* UIMemory: src/src/memory/persistence.py *)

\* f"{meta['title']}|{meta['rect']['w']}x{meta['rect']['h']}"
signature(meta) ==
    meta.title \o "|" \o ToString(meta.rect.w) \o "x" \o ToString(meta.rect.h)

\* hashlib.md5(sig.encode()).hexdigest(): the digest is taken to be free of
\* collisions on the signatures of the model, so it is the signature, tagged
md5_hexdigest(sig) == "md5(" \o sig \o ")"

\* a fingerprint that also reads the window's position
generate_hash_with_position(meta) ==
    md5_hexdigest(ToString(meta.rect.x) \o "," \o ToString(meta.rect.y)
                  \o "|" \o signature(meta))

generate_hash(meta) == md5_hexdigest(signature(meta))

\* the keys persist_map reads of every element: data['click_coords'] at line
\* 46, data['rel_x'] and data['rel_y'] at line 55
persist_map_keys == {"click_coords", "rel_x", "rel_y"}

\* persist_map raises KeyError at the first element that lacks a key it reads
persist_map_raises(semantic_map) ==
    \E id \in DOMAIN semantic_map :
        ~ (persist_map_keys \subseteq DOMAIN semantic_map[id])

mk_row(fingerprint, sem_id, data) ==
    [fingerprint |-> fingerprint, sem_id |-> sem_id,
     rel_x |-> data.rel_x, rel_y |-> data.rel_y]

\* The table after persist_map(fingerprint, semantic_map).  The INSERT OR
\* REPLACE statements run in one transaction that the `with` block commits at
\* its end and rolls back when the loop raises; PRIMARY KEY (fingerprint,
\* sem_id) makes each statement replace the row of the same key only.
persist_map(rows, fingerprint, semantic_map) ==
    IF persist_map_raises(semantic_map)
    THEN rows
    ELSE { r \in rows : ~ (r.fingerprint = fingerprint
                           /\ r.sem_id \in DOMAIN semantic_map) }
         \cup { mk_row(fingerprint, id, semantic_map[id]) :
                    id \in DOMAIN semantic_map }

\* recall_all(fingerprint): None without rows, else sem_id -> {rel_x, rel_y}
recall_all(rows, fingerprint) ==
    LET found == { r \in rows : r.fingerprint = fingerprint }
    IN  IF found = {}
        THEN NoCache
        ELSE [none |-> FALSE,
              map |-> [id \in { r.sem_id : r \in found } |->
                         LET r == CHOOSE q \in found : q.sem_id = id
                         IN  [rel_x |-> r.rel_x, rel_y |-> r.rel_y]]]

\* a forget whose DELETE has no WHERE clause
forget_all(rows, fingerprint) == {}

\* forget(fingerprint): DELETE FROM ui_map WHERE fingerprint = ?
forget(rows, fingerprint) == { r \in rows : r.fingerprint # fingerprint }

-----------------------------------------------------------------------------
(* OCRWrapper.analyze_ui: src/src/vision/ocr_engine.py *)

\* the text regions of the screen: a label and its bounding box, four corner
\* points in screenshot pixels
Regions ==
    { [text |-> "Submit", box |-> << <<40, 55>>, <<60, 55>>, <<60, 65>>, <<40, 65>> >>],
      [text |-> "Login:", box |-> << <<10, 25>>, <<31, 25>>, <<31, 35>>, <<10, 35>> >>] }

Confidences == {50, 90}

\* one line of PaddleOCR's result: [box, (text, confidence)]
OcrLines ==
    { [box |-> r.box, text |-> r.text, confidence |-> c] :
        r \in Regions, c \in Confidences }

\* text_str.lower().replace(" ", "_").replace(":", "") on the texts of the model
clean_id(text) ==
    CASE text = "Submit" -> "submit"
      [] text = "Login:" -> "login"

\* int(np.mean(box[:, k])) for a box of four points with coordinates >= 0
box_center(box, k) == (box[1][k] + box[2][k] + box[3][k] + box[4][k]) \div 4

\* the entry analyze_ui makes of a line it keeps
ui_entry(line, window_rect) ==
    [text |-> line.text,
     click_coords |-> << box_center(line.box, 1) + window_rect.x,
                         box_center(line.box, 2) + window_rect.y >>,
     confidence |-> line.confidence]

\* whether analyze_ui keeps a line: `if confidence < 0.8: continue`
keeps_line(line) == ~ (line.confidence < ConfidenceThreshold)

\* semantic_data after the loop over lines[1..n]: a later line of the same
\* clean_id overwrites an earlier one
RECURSIVE analyze_lines(_, _, _)
analyze_lines(lines, n, window_rect) ==
    IF n = 0
    THEN EmptyMap
    ELSE LET before == analyze_lines(lines, n - 1, window_rect)
             line == lines[n]
             id == clean_id(line.text)
         IN  IF keeps_line(line)
             THEN [k \in DOMAIN before \cup {id} |->
                     IF k = id THEN ui_entry(line, window_rect) ELSE before[k]]
             ELSE before

analyze_ui(lines, window_rect) == analyze_lines(lines, Len(lines), window_rect)

\* the results the OCR engine may give for a screenshot
RECURSIVE SeqsUpTo(_, _)
SeqsUpTo(S, n) ==
    IF n = 0
    THEN { <<>> }
    ELSE LET shorter == SeqsUpTo(S, n - 1)
         IN  shorter \cup { Append(q, e) : q \in { p \in shorter : Len(p) = n - 1 }, e \in S }

OcrResults == SeqsUpTo(OcrLines, MaxLines)

-----------------------------------------------------------------------------
(* The backends: src/src/backends/linux.py, src/src/backends/windows.py *)

\* _get_fallback_meta: the whole display under the sentinel title
fallback_meta == mk_meta("DESKTOP_FALLBACK", 0, mk_rect(0, 0, 1920, 1080))

\* get_active_window_meta: the focused window, or the fallback when the
\* structural query raises inside the backend's try block
get_active_window_meta(win, query_fails) ==
    IF query_fails THEN fallback_meta ELSE win

\* capture_window(rect): the pixels of the region rect, an image of rect.h
\* rows and rect.w columns whose pixel (0, 0) is screen point (rect.x, rect.y)
capture_window(rect) ==
    [left |-> rect.x, top |-> rect.y, width |-> rect.w, height |-> rect.h]

NoShot == capture_window(NoMeta.rect)

-----------------------------------------------------------------------------
(* DesktopOracle.get_full_state, the function body: src/src/core.py *)

\* `if not cached_map`, taken on every cycle
is_miss_always(cached_map) == TRUE

\* `if not cached_map`: None or an empty dict
is_miss(cached_map) == cached_map.none \/ DOMAIN cached_map.map = {}

\* rel_map of lines 78-86
to_relative(semantic_map, meta) ==
    [id \in DOMAIN semantic_map |->
        [rel_x |-> semantic_map[id].click_coords[1] - meta.rect.x,
         rel_y |-> semantic_map[id].click_coords[2] - meta.rect.y,
         text |-> semantic_map[id].text,
         confidence |-> semantic_map[id].confidence]]

\* final_map that hands on a confidence below 1.0
to_absolute_unsure(cached, meta) ==
    [id \in DOMAIN cached |->
        [click_coords |-> << cached[id].rel_x + meta.rect.x,
                             cached[id].rel_y + meta.rect.y >>,
         text |-> id,
         confidence |-> 90]]

\* final_map of lines 93-99; a recalled element has no 'text', so
\* data.get('text', sem_id) is sem_id
to_absolute(cached, meta) ==
    [id \in DOMAIN cached |->
        [click_coords |-> << cached[id].rel_x + meta.rect.x,
                             cached[id].rel_y + meta.rect.y >>,
         text |-> id,
         confidence |-> 100]]

\* the dict of lines 101-105
mk_state(meta, final_map, screenshot) ==
    [meta |-> meta, semantic_map |-> final_map, screenshot |-> screenshot]

NoState == mk_state(NoMeta, EmptyMap, NoShot)

NoFrame ==
    [meta |-> NoMeta, win_hash |-> "", cached_map |-> NoCache,
     screenshot |-> NoShot, semantic_map |-> EmptyMap, rel_map |-> EmptyMap,
     ocr |-> FALSE]

-----------------------------------------------------------------------------
(* Values that cross the wrapper *)

NoError == ""

mk_item(success, value, error) ==
    [success |-> success, value |-> value, error |-> error]

NoItem == mk_item(FALSE, NoState, NoError)

mk_outcome(kind, value, error) == [kind |-> kind, value |-> value, error |-> error]

NoOutcome == mk_outcome("none", NoState, NoError)

NoCycle ==
    [path |-> "none", meta |-> NoMeta, win_hash |-> "", stored |-> {},
     high |-> {}, low |-> {}, seen |-> EmptyMap]

\* the element whose observations the history follows across cycles
TrackedId == "submit"

NoObserved == [fingerprint |-> "", ax |-> 0, ay |-> 0, x0 |-> 0, y0 |-> 0]

\* no process is inside persist_map
NoTxn ==
    [pc |-> "none", fingerprint |-> "", semantic_map |-> EmptyMap,
     todo |-> {}, written |-> {}, before |-> {}, lost |-> {},
     error |-> NoError]

-----------------------------------------------------------------------------
(* timeout_watchdog: wrapper(), the caller's side.  src/src/utils/watchdog.py *)

call_vars == << args, item, outcome, started, terminate_calls, func_calls,
                analyze_calls, timeout_at, cycle >>

worker_vars == << proc, sigterm, wpc, frame, msg >>

playbook_vars == << history, journal, resume, recorded, retained, restarted,
                   steps >>

store_vars == << recalled, forgotten, persisted >>

action_vars == << epc, ecall, eresult, events, gate, last_outcome >>

late_vars == << verify_in, txn, engines >>

more_vars == << playbook_vars, store_vars, prev, action_vars, late_vars >>

other_vars == << window, self_ocr, observed, hash_in, hash_out, more_vars >>

\* lines 25-42: a fresh queue, a Process on worker, process.start().  The
\* worker starts as a copy of the caller, self._ocr included.
wrapper_start(a) ==
    /\ pc = "idle"
    /\ pc' = "get"
    /\ args' = a
    /\ queue' = << >>
    /\ proc' = "alive"
    /\ sigterm' = FALSE
    /\ wpc' = "worker"
    /\ frame' = [NoFrame EXCEPT !.ocr = self_ocr]
    /\ started' = started + 1
    /\ UNCHANGED << item, outcome, msg, terminate_calls, func_calls,
                    analyze_calls, timeout_at, cycle, db, other_vars >>

\* line 46: queue.get(timeout=seconds) returns the tuple the worker put
queue_get ==
    /\ pc = "get"
    /\ queue # << >>
    /\ item' = Head(queue)
    /\ queue' = Tail(queue)
    /\ pc' = "join"
    /\ UNCHANGED << args, outcome, started, terminate_calls, func_calls,
                    analyze_calls, timeout_at, cycle, worker_vars, db,
                    other_vars >>

\* line 46: the deadline passes with the queue empty; queue.get raises Empty
queue_get_Empty ==
    /\ pc = "get"
    /\ queue = << >>
    /\ timeout_at' = wpc
    /\ pc' = "terminate"
    /\ UNCHANGED << args, item, outcome, started, terminate_calls, func_calls,
                    analyze_calls, cycle, queue, worker_vars, db, other_vars >>

\* `except Empty:` of line 54 also encloses `raise result` of line 52
except_Empty(error) == error = "Empty"

\* lines 49-52 with `result` in place of `return result`: the caller gets None
deliver_none(it) ==
    IF it.success
    THEN mk_outcome("return", NoState, NoError)
    ELSE mk_outcome("raise", NoState, it.error)

\* lines 49-52: `return result` on success, else `raise result`
deliver(it) ==
    IF it.success
    THEN mk_outcome("return", it.value, NoError)
    ELSE mk_outcome("raise", NoState, it.error)

\* lines 47-52: process.join() returns once the worker is gone; then the
\* result is returned or re-raised, and a re-raised Empty lands in line 54
join_and_deliver ==
    /\ pc = "join"
    /\ proc # "alive"
    /\ IF ~ item.success /\ except_Empty(item.error)
       THEN /\ pc' = "terminate"
            /\ outcome' = outcome
       ELSE /\ pc' = "done"
            /\ outcome' = deliver(item)
    /\ UNCHANGED << args, item, started, terminate_calls, func_calls,
                    analyze_calls, timeout_at, cycle, queue, worker_vars, db,
                    other_vars >>

\* line 55 as a call that sends no signal
terminate_without_signal ==
    /\ pc = "terminate"
    /\ terminate_calls' = terminate_calls + 1
    /\ sigterm' = FALSE
    /\ pc' = "join_terminated"
    /\ UNCHANGED << args, item, outcome, started, func_calls, analyze_calls,
                    timeout_at, cycle, queue, proc, wpc, frame, msg, db,
                    other_vars >>

\* line 55: process.terminate() sends SIGTERM to the worker, if it still runs
terminate ==
    /\ pc = "terminate"
    /\ terminate_calls' = terminate_calls + 1
    /\ sigterm' = (proc = "alive")
    /\ pc' = "join_terminated"
    /\ UNCHANGED << args, item, outcome, started, func_calls, analyze_calls,
                    timeout_at, cycle, queue, proc, wpc, frame, msg, db,
                    other_vars >>

\* lines 56-60 without the wait of process.join()
raise_timeout_without_join ==
    /\ pc = "join_terminated"
    /\ outcome' = mk_outcome("raise", NoState, "WatchdogTimeoutError")
    /\ pc' = "done"
    /\ UNCHANGED << args, item, started, terminate_calls, func_calls,
                    analyze_calls, timeout_at, cycle, queue, worker_vars, db,
                    other_vars >>

\* lines 56-60 giving a fallback value instead of raising
return_fallback_on_timeout ==
    /\ pc = "join_terminated"
    /\ proc # "alive"
    /\ outcome' = mk_outcome("return", NoState, NoError)
    /\ pc' = "done"
    /\ UNCHANGED << args, item, started, terminate_calls, func_calls,
                    analyze_calls, timeout_at, cycle, queue, worker_vars, db,
                    other_vars >>

\* lines 56-60: process.join() returns once the worker is gone, then
\* WatchdogTimeoutError is raised
join_and_raise_timeout ==
    /\ pc = "join_terminated"
    /\ proc # "alive"
    /\ outcome' = mk_outcome("raise", NoState, "WatchdogTimeoutError")
    /\ pc' = "done"
    /\ UNCHANGED << args, item, started, terminate_calls, func_calls,
                    analyze_calls, timeout_at, cycle, queue, worker_vars, db,
                    other_vars >>

\* the caller takes what wrapper() gave it and goes on; the history of the
\* call ends here
caller_continues ==
    /\ pc = "done"
    /\ pc' = "idle"
    /\ args' = [force_refresh |-> FALSE]
    /\ item' = NoItem
    /\ outcome' = NoOutcome
    /\ msg' = NoItem
    /\ proc' = "none"
    /\ started' = 0
    /\ terminate_calls' = 0
    /\ func_calls' = 0
    /\ analyze_calls' = 0
    /\ timeout_at' = "none"
    /\ cycle' = NoCycle
    /\ queue' = << >>
    /\ UNCHANGED << sigterm, wpc, frame, db, other_vars >>

\* the caller goes on to its next get_full_state cycle; the history keeps
\* the WindowMeta the cycle that ends here read at line 59, if it read one
next_cycle ==
    /\ pc = "done"
    /\ pc' = "idle"
    /\ args' = [force_refresh |-> FALSE]
    /\ item' = NoItem
    /\ outcome' = NoOutcome
    /\ msg' = NoItem
    /\ proc' = "none"
    /\ started' = 0
    /\ terminate_calls' = 0
    /\ func_calls' = 0
    /\ analyze_calls' = 0
    /\ timeout_at' = "none"
    /\ cycle' = NoCycle
    /\ queue' = << >>
    /\ prev' = IF cycle.path = "none" THEN prev ELSE cycle.meta
    /\ UNCHANGED << sigterm, wpc, frame, db, window, self_ocr, observed,
                    hash_in, hash_out, playbook_vars, store_vars,
                    action_vars, late_vars >>

\* the most get_full_state calls of one DesktopOracle whose engines are counted
MaxCalls == 2

\* The caller goes on after a call, as in caller_continues.  The `ocr`
\* property (core.py lines 46-51) builds an OCRWrapper when _ocr is None; the
\* worker of this call built one exactly if it reached line 71 (self.ocr)
\* with the copy of an object whose _ocr was None when the call began.
next_call ==
    /\ pc = "done"
    /\ pc' = "idle"
    /\ args' = [force_refresh |-> FALSE]
    /\ item' = NoItem
    /\ outcome' = NoOutcome
    /\ msg' = NoItem
    /\ proc' = "none"
    /\ started' = 0
    /\ terminate_calls' = 0
    /\ func_calls' = 0
    /\ analyze_calls' = 0
    /\ timeout_at' = "none"
    /\ cycle' = NoCycle
    /\ queue' = << >>
    /\ engines' = IF analyze_calls > 0 /\ ~ self_ocr THEN engines + 1 ELSE engines
    /\ UNCHANGED << sigterm, wpc, frame, db, window, self_ocr, observed,
                    hash_in, hash_out, playbook_vars, store_vars, prev,
                    action_vars, verify_in, txn >>

-----------------------------------------------------------------------------
(* timeout_watchdog: worker(), in the worker process *)

\* The worker takes steps while it lives and no SIGTERM is pending.  A step
\* taken between terminate() and the signal's effect touches nothing that
\* terminate() reads or writes, so it is seen as taken before terminate().
running == proc = "alive" /\ ~ sigterm

\* line 30: worker calls func(*worker_args, **worker_kwargs)
worker_calls_func ==
    /\ running
    /\ wpc = "worker"
    /\ wpc' = "func"
    /\ func_calls' = func_calls + 1
    /\ UNCHANGED << pc, args, item, outcome, started, terminate_calls,
                    analyze_calls, timeout_at, cycle, queue, proc, sigterm,
                    frame, msg, db, other_vars >>

\* lines 31 and 33: q.put((True, result)) or q.put((False, e))
worker_put ==
    /\ running
    /\ wpc = "put"
    /\ queue' = Append(queue, msg)
    /\ wpc' = "exit"
    /\ UNCHANGED << pc, call_vars, proc, sigterm, frame, msg, db, other_vars >>

\* worker returns and the process ends
worker_exits ==
    /\ running
    /\ wpc = "exit"
    /\ proc' = "exited"
    /\ wpc' = "dead"
    /\ frame' = NoFrame
    /\ sigterm' = FALSE
    /\ UNCHANGED << pc, call_vars, queue, msg, db, other_vars >>

\* SIGTERM ends the worker wherever it is
worker_killed ==
    /\ proc = "alive"
    /\ sigterm
    /\ proc' = "killed"
    /\ wpc' = "dead"
    /\ frame' = NoFrame
    /\ sigterm' = FALSE
    /\ UNCHANGED << pc, call_vars, queue, msg, db, other_vars >>

-----------------------------------------------------------------------------
(* An arbitrary wrapped call, as the worker sees it *)

\* what a wrapped call returns in the model: state dictionaries
Values == { mk_state(m, EmptyMap, capture_window(m.rect)) : m \in Desktop }

\* what a wrapped call raises in the model; "Empty" is queue.Empty
Errors == {"ValueError", "Empty"}

Args == [force_refresh : BOOLEAN]

\* line 30 returns v: the worker goes on to q.put((True, v))
func_returns(v) ==
    /\ running
    /\ wpc = "func"
    /\ msg' = mk_item(TRUE, v, NoError)
    /\ wpc' = "put"
    /\ UNCHANGED << pc, call_vars, queue, proc, sigterm, frame, db, other_vars >>

\* line 30 raises e, an Exception: line 33 goes on to q.put((False, e))
func_raises(e) ==
    /\ running
    /\ wpc = "func"
    /\ msg' = mk_item(FALSE, NoState, e)
    /\ wpc' = "put"
    /\ UNCHANGED << pc, call_vars, queue, proc, sigterm, frame, db, other_vars >>

\* line 30 never returns
func_hangs ==
    /\ running
    /\ wpc = "func"
    /\ wpc' = "hung"
    /\ UNCHANGED << pc, call_vars, queue, proc, sigterm, frame, msg, db,
                    other_vars >>

\* the worker ends inside line 30 with nothing put: the process is killed
\* from outside, or func leaves by a BaseException line 32 does not catch
func_ends_process ==
    /\ running
    /\ wpc = "func"
    /\ proc' = "exited"
    /\ wpc' = "dead"
    /\ frame' = NoFrame
    /\ sigterm' = FALSE
    /\ UNCHANGED << pc, call_vars, queue, msg, db, other_vars >>

-----------------------------------------------------------------------------
(* get_full_state as the wrapped call: src/src/core.py lines 54-105 *)

\* the rows the store holds for a fingerprint
rows_of(rows, fingerprint) == { r \in rows : r.fingerprint = fingerprint }

\* lines 59-60: the backend reports the window (or its fallback) and the
\* fingerprint is taken
gfs_meta ==
    /\ running
    /\ wpc = "func"
    /\ \E query_fails \in BOOLEAN :
        LET meta == get_active_window_meta(window, query_fails)
            win_hash == generate_hash(meta)
        IN  /\ frame' = [frame EXCEPT !.meta = meta, !.win_hash = win_hash]
            /\ cycle' = [cycle EXCEPT !.path = "meta", !.meta = meta,
                                      !.win_hash = win_hash,
                                      !.stored = rows_of(db, win_hash)]
    /\ wpc' = "recall"
    /\ UNCHANGED << pc, args, item, outcome, started, terminate_calls,
                    func_calls, analyze_calls, timeout_at, queue, proc,
                    sigterm, msg, db, other_vars >>

\* line 59: the structural query of the OS never returns
gfs_meta_hangs ==
    /\ running
    /\ wpc = "func"
    /\ wpc' = "hung"
    /\ UNCHANGED << pc, call_vars, queue, proc, sigterm, frame, msg, db,
                    other_vars >>

\* lines 63-66: cached_map = None if force_refresh else recall_all(win_hash),
\* then screenshot = capture_window(meta['rect'])
gfs_recall_capture ==
    /\ running
    /\ wpc = "recall"
    /\ frame' = [frame EXCEPT
                    !.cached_map = IF args.force_refresh THEN NoCache
                                   ELSE recall_all(db, frame.win_hash),
                    !.screenshot = capture_window(frame.meta.rect)]
    /\ wpc' = "branch"
    /\ UNCHANGED << pc, call_vars, queue, proc, sigterm, msg, db, other_vars >>

\* the clean ids of the lines reported with a confidence in `confs`
ids_reported(lines, confs) ==
    { clean_id(lines[i].text) :
        i \in { j \in DOMAIN lines : lines[j].confidence \in confs } }

\* lines 69-86, the miss branch: self.ocr builds the engine in the worker when
\* its copy of self._ocr is None, analyze_ui examines the screenshot, and the
\* map is made relative
gfs_analyze ==
    /\ running
    /\ wpc = "branch"
    /\ is_miss(frame.cached_map)
    /\ \E lines \in OcrResults :
        LET semantic_map == analyze_ui(lines, frame.meta.rect)
        IN  /\ frame' = [frame EXCEPT
                            !.ocr = TRUE,
                            !.semantic_map = semantic_map,
                            !.rel_map = to_relative(semantic_map, frame.meta)]
            /\ cycle' = [cycle EXCEPT
                            !.path = "miss",
                            !.high = ids_reported(lines,
                                        { c \in Confidences : c >= ConfidenceThreshold }),
                            !.low = ids_reported(lines,
                                        { c \in Confidences : c < ConfidenceThreshold }),
                            !.seen = semantic_map]
    /\ analyze_calls' = analyze_calls + 1
    /\ wpc' = "persist"
    /\ UNCHANGED << pc, args, item, outcome, started, terminate_calls,
                    func_calls, timeout_at, queue, proc, sigterm, msg, db,
                    other_vars >>

\* lines 88-90 and 101-105: persist_map(win_hash, rel_map), then the state is
\* returned with the freshly observed map; a KeyError of persist_map leaves
\* get_full_state and is caught by line 32 of the worker
gfs_persist ==
    /\ running
    /\ wpc = "persist"
    /\ db' = persist_map(db, frame.win_hash, frame.rel_map)
    /\ msg' = IF persist_map_raises(frame.rel_map)
              THEN mk_item(FALSE, NoState, "KeyError")
              ELSE mk_item(TRUE,
                           mk_state(frame.meta, frame.semantic_map, frame.screenshot),
                           NoError)
    /\ observed' = IF TrackedId \in DOMAIN frame.rel_map
                   THEN [fingerprint |-> frame.win_hash,
                         ax |-> frame.semantic_map[TrackedId].click_coords[1],
                         ay |-> frame.semantic_map[TrackedId].click_coords[2],
                         x0 |-> frame.meta.rect.x,
                         y0 |-> frame.meta.rect.y]
                   ELSE observed
    /\ wpc' = "put"
    /\ UNCHANGED << pc, call_vars, queue, proc, sigterm, frame, window,
                    self_ocr, hash_in, hash_out, more_vars >>

\* lines 91-105, the hit branch: absolute coordinates are rebuilt from the
\* recalled offsets and the state is returned
gfs_hit ==
    /\ running
    /\ wpc = "branch"
    /\ ~ is_miss(frame.cached_map)
    /\ msg' = mk_item(TRUE,
                      mk_state(frame.meta,
                               to_absolute(frame.cached_map.map, frame.meta),
                               frame.screenshot),
                      NoError)
    /\ cycle' = [cycle EXCEPT !.path = "hit"]
    /\ wpc' = "put"
    /\ UNCHANGED << pc, args, item, outcome, started, terminate_calls,
                    func_calls, analyze_calls, timeout_at, queue, proc,
                    sigterm, frame, db, other_vars >>

-----------------------------------------------------------------------------
(* The store used directly, and the desktop *)

\* an element as persist_map reads it: click_coords, rel_x and rel_y
full_element(rel_x, rel_y) ==
    [click_coords |-> << rel_x + 100, rel_y + 100 >>,
     rel_x |-> rel_x, rel_y |-> rel_y]

\* an element as get_full_state puts it in rel_map (core.py lines 81-86)
rel_element(rel_x, rel_y) ==
    [rel_x |-> rel_x, rel_y |-> rel_y, text |-> "Submit", confidence |-> 90]

\* the maps a direct caller of persist_map passes
ClientMaps ==
    { "submit" :> full_element(50, 60),
      "login" :> full_element(20, 30),
      "submit" :> rel_element(50, 60) }

Fingerprints == { generate_hash(m) : m \in Desktop }

\* memory.persist_map(fingerprint, semantic_map) called between cycles
client_persist_map(fingerprint, semantic_map) ==
    /\ pc = "idle"
    /\ db' = persist_map(db, fingerprint, semantic_map)
    /\ observed' =
        IF /\ observed.fingerprint = fingerprint
           /\ TrackedId \in DOMAIN semantic_map
           /\ ~ persist_map_raises(semantic_map)
        THEN NoObserved
        ELSE observed
    /\ UNCHANGED << pc, call_vars, queue, worker_vars, window, self_ocr,
                    hash_in, hash_out, more_vars >>

\* memory.forget(fingerprint) called between cycles
client_forget(fingerprint) ==
    /\ pc = "idle"
    /\ db' = forget(db, fingerprint)
    /\ observed' = IF observed.fingerprint = fingerprint THEN NoObserved ELSE observed
    /\ UNCHANGED << pc, call_vars, queue, worker_vars, window, self_ocr,
                    hash_in, hash_out, more_vars >>

\* The user moves or resizes the window.  The cycle reads the window once, at
\* line 59, so a change during a cycle is seen as one before or after it.
window_changes ==
    /\ pc = "idle"
    /\ \E w \in Desktop \ {window} : window' = w
    /\ UNCHANGED << pc, call_vars, queue, worker_vars, db, self_ocr, observed,
                    hash_in, hash_out, more_vars >>

-----------------------------------------------------------------------------
(* UIMemory used on its own *)

NoRecall == [given |-> FALSE, fingerprint |-> "", result |-> NoCache]

\* memory.persist_map(fingerprint, semantic_map)
memory_persist_map(fingerprint, semantic_map) ==
    /\ db' = persist_map(db, fingerprint, semantic_map)
    /\ persisted' = persisted \cup {fingerprint}
    /\ forgotten' = IF persist_map_raises(semantic_map)
                    THEN forgotten
                    ELSE forgotten \ {fingerprint}
    /\ recalled' = NoRecall
    /\ UNCHANGED << window, self_ocr, pc, call_vars, queue, worker_vars,
                    observed, hash_in, hash_out, playbook_vars, prev, action_vars,
                    late_vars >>

\* memory.recall_all(fingerprint)
memory_recall_all(fingerprint) ==
    /\ recalled' = [given |-> TRUE, fingerprint |-> fingerprint,
                    result |-> recall_all(db, fingerprint)]
    /\ UNCHANGED << db, forgotten, persisted, window, self_ocr, pc, call_vars,
                    queue, worker_vars, observed, hash_in, hash_out,
                    playbook_vars, prev, action_vars,
                    late_vars >>

\* memory.forget(fingerprint)
memory_forget(fingerprint) ==
    /\ db' = forget(db, fingerprint)
    /\ forgotten' = forgotten \cup {fingerprint}
    /\ recalled' = NoRecall
    /\ UNCHANGED << persisted, window, self_ocr, pc, call_vars, queue,
                    worker_vars, observed, hash_in, hash_out, playbook_vars, prev, action_vars,
                    late_vars >>

-----------------------------------------------------------------------------
(* RecoveryPlaybook: src/src/memory/playbook.py.  A text is the sequence of  *)
(* its lines.                                                                *)

\* the most record_step calls a run of the model makes
MaxSteps == 12

\* `if len(self.history) > 10`
JournalCap == 10

\* the ids and views the playbook is given
StepIds == {"submit", "login"}
StepViews == {"App"}

mk_step(sem_id, view_name) == [id |-> sem_id, view |-> view_name]

\* record_step that appends and never evicts
record_step_keeping_all(h, sem_id, view_name) == Append(h, mk_step(sem_id, view_name))

\* record_step that appends the record twice
record_step_twice(h, sem_id, view_name) ==
    LET appended == h \o << mk_step(sem_id, view_name), mk_step(sem_id, view_name) >>
    IN  IF Len(appended) > JournalCap THEN Tail(appended) ELSE appended

\* lines 13-15: append, then pop(0) when more than ten records are held
record_step(h, sem_id, view_name) ==
    LET appended == Append(h, mk_step(sem_id, view_name))
    IN  IF Len(appended) > JournalCap THEN Tail(appended) ELSE appended

\* lines 18-20: open(path, "w") truncates the file, json.dump writes history
_persist(h) == h

\* line 27: f"{i+1}. Navigate to **{step['view']}** via **{step['id']}**"
step_line(i, step) ==
    ToString(i) \o ". Navigate to **" \o step.view \o "** via **" \o step.id \o "**"

\* lines 30-36: the guide rendered from the records h
resume_guide(h) ==
    << "## Recovery Playbook: Resuming Session",
       "The following steps represent the last successful actions before the crash:" >>
    \o [i \in 1..Len(h) |-> step_line(i, h[i])]
    \o << "",
          "**Action Required:** Re-verify visual state at the last step before proceeding." >>

\* lines 22-36: generate_resume_instructions of a playbook whose history is h
generate_resume_instructions(h) ==
    IF h = << >>
    THEN << "No history found. Start from the default entry point." >>
    ELSE resume_guide(h)

NoResume == [given |-> FALSE, lines |-> << >>]

\* playbook.record_step(sem_id, view_name) with its _persist()
playbook_record_step(sem_id, view_name) ==
    /\ steps < MaxSteps
    /\ history' = record_step(history, sem_id, view_name)
    /\ journal' = _persist(history')
    /\ recorded' = Append(recorded, mk_step(sem_id, view_name))
    /\ steps' = steps + 1
    /\ resume' = NoResume
    /\ UNCHANGED << retained, restarted, window, db, self_ocr, pc, call_vars,
                    queue, worker_vars, observed, hash_in, hash_out, store_vars, prev, action_vars,
                    late_vars >>

\* playbook.generate_resume_instructions()
playbook_resume ==
    /\ resume' = [given |-> TRUE, lines |-> generate_resume_instructions(history)]
    /\ UNCHANGED << history, journal, recorded, retained, restarted, steps,
                    window, db, self_ocr, pc, call_vars, queue, worker_vars,
                    observed, hash_in, hash_out, store_vars, prev, action_vars,
                    late_vars >>

\* the process ends and a new one runs RecoveryPlaybook() on the same path:
\* lines 7-9 make the directory and set history = []; the file is not read
playbook_restart ==
    /\ history' = << >>
    /\ recorded' = << >>
    /\ retained' = journal
    /\ restarted' = TRUE
    /\ resume' = NoResume
    /\ UNCHANGED << journal, steps, window, db, self_ocr, pc, call_vars, queue,
                    worker_vars, observed, hash_in, hash_out, store_vars, prev, action_vars,
                    late_vars >>

-----------------------------------------------------------------------------
(* VisualVerifier.verify_input: src/src/vision/visual_check.py.  An edge     *)
(* density is an integer number of ten-thousandths (0.02 is 200).            *)

\* verify_input(coords, screenshot_np, padding=30)
VerifyPadding == 30

\* `0.02 < edge_density < 0.25`
DensityLow == 200
DensityHigh == 2500

\* the edge densities a patch of pixels may show
Densities == {0, 200, 201, 2499, 2500, 10000}

Max(a, b) == IF a >= b THEN a ELSE b

Min(a, b) == IF a <= b THEN a ELSE b

\* numpy's a[start:stop] on an axis of length n, for start >= 0: a start
\* beyond the axis is the end of the axis
slice_start(start, n) == Min(start, n)

\* a negative stop counts from the end of the axis
slice_stop(stop, n) == IF stop < 0 THEN Max(0, stop + n) ELSE Min(stop, n)

\* lines 18-24: the rows and columns screenshot_np[y1:y2, x1:x2] selects
patch_of(coords, screenshot) ==
    LET w == screenshot.width
        h == screenshot.height
    IN  [x1 |-> slice_start(Max(0, coords[1] - VerifyPadding), w),
         x2 |-> slice_stop(Min(w, coords[1] + VerifyPadding), w),
         y1 |-> slice_start(Max(0, coords[2] - VerifyPadding), h),
         y2 |-> slice_stop(Min(h, coords[2] + VerifyPadding), h)]

\* line 26: patch.size == 0
patch_empty(patch) == patch.x2 <= patch.x1 \/ patch.y2 <= patch.y1

NoGate ==
    [checked |-> FALSE, is_valid |-> FALSE, coords |-> << 0, 0 >>,
     patch |-> [x1 |-> 0, x2 |-> 0, y1 |-> 0, y2 |-> 0], density |-> 0]

\* verify_input with a band that includes its two ends
verify_input_inclusive(coords, screenshot, density) ==
    LET patch == patch_of(coords, screenshot)
    IN  [checked |-> TRUE,
         is_valid |-> IF patch_empty(patch)
                      THEN FALSE
                      ELSE DensityLow <= density /\ density <= DensityHigh,
         coords |-> coords,
         patch |-> patch,
         density |-> IF patch_empty(patch) THEN 0 ELSE density]

\* lines 13-40, for a patch whose edge density is `density`: (False, None) for
\* an empty patch, else (0.02 < edge_density < 0.25, patch)
verify_input(coords, screenshot, density) ==
    LET patch == patch_of(coords, screenshot)
    IN  [checked |-> TRUE,
         is_valid |-> IF patch_empty(patch)
                      THEN FALSE
                      ELSE DensityLow < density /\ density < DensityHigh,
         coords |-> coords,
         patch |-> patch,
         density |-> IF patch_empty(patch) THEN 0 ELSE density]

-----------------------------------------------------------------------------
(* The backends' click and type_text, as sequences of what they do *)

mk_event(op, coords, text) == [op |-> op, coords |-> coords, text |-> text]

\* click(coords), called by the core: pyautogui.click(x, y)
click(coords) ==
    << mk_event("backend.click", coords, ""),
       mk_event("pyautogui.click", coords, "") >>

\* type_text(text, coords), called by the core: coords is a pair, so
\* self.click(coords) runs, then pyautogui.write(text, interval=0.05)
type_text(text, coords) ==
    << mk_event("backend.type_text", coords, text),
       mk_event("pyautogui.click", coords, ""),
       mk_event("pyautogui.write", coords, text) >>

\* audit.log_snapshot(scene_md, event_type)
log_snapshot(event_type) == << mk_event("log_snapshot", << 0, 0 >>, event_type) >>

-----------------------------------------------------------------------------
(* DesktopOracle.execute_action and generate_scene_description, in the       *)
(* caller's process: src/src/core.py lines 107-159                           *)

\* the most successful actions a run of the model makes
MaxActions == 2

\* the text argument: None, "" or a string
NoText == [none |-> TRUE, str |-> ""]
EmptyText == [none |-> FALSE, str |-> ""]
SomeText == [none |-> FALSE, str |-> "admin_user"]

\* the calls of execute_action a caller makes: of a field, of a field at the
\* far corner, of an id no map holds; clicks, and typing with each kind of text
ActionCalls ==
    { << "username", "click", NoText >>,
      << "username", "type", SomeText >>,
      << "username", "type", EmptyText >>,
      << "username", "type", NoText >>,
      << "password", "type", SomeText >>,
      << "login", "click", NoText >> }

\* the stored map of a login form: a field near the window's origin and one
\* near its far corner
ActionMaps ==
    { ("username" :> full_element(50, 60)) @@ ("password" :> full_element(780, 580)) }

mk_call(op, sem_id, action_type, text, with_map, semantic_map) ==
    [op |-> op, sem_id |-> sem_id, action_type |-> action_type, text |-> text,
     with_map |-> with_map, map |-> semantic_map]

NoCall == mk_call("none", "", "", NoText, FALSE, EmptyMap)

NoReport == [head |-> << >>, rows |-> {}, tail |-> << >>]

mk_result(kind, ok, error, report) ==
    [kind |-> kind, ok |-> ok, error |-> error, report |-> report]

NoResult == mk_result("none", FALSE, NoError, NoReport)

NoLast == [kind |-> "none", ok |-> FALSE]

\* line 110 with the test left out
identified_always(sem_id, semantic_map) == TRUE

\* line 110: `sem_id not in state['semantic_map']`, negated
identified(sem_id, semantic_map) == sem_id \in DOMAIN semantic_map

\* line 120 with the branch always taken
gate_open_always(is_valid) == TRUE

\* line 120: `if is_valid:`
gate_open(is_valid) == is_valid

\* line 121: `action_type == "type" and text`; None and "" are false
types_text(action_type, text) ==
    action_type = "type" /\ ~ text.none /\ text.str # ""

\* lines 121-124: the Backend call of an accepted action
dispatch(action_type, text, coords) ==
    IF types_text(action_type, text)
    THEN type_text(text.str, coords)
    ELSE click(coords)

\* Lines 110-131 on the state get_full_state returned: what the method
\* returns or raises, what it does on the way, and the playbook's history
\* after it.  A Backend call that raises (pyautogui's fail-safe) is made and
\* ends the method at that line.
execute_action_on(state, call, h, density, backend_raises) ==
    LET semantic_map == state.semantic_map
    IN  IF ~ identified(call.sem_id, semantic_map)
        THEN [events |-> log_snapshot("ERROR"),
              gate |-> NoGate, history |-> h, stepped |-> FALSE,
              result |-> mk_result("return", FALSE, NoError, NoReport)]
        ELSE IF call.sem_id \notin DOMAIN semantic_map
        THEN \* line 114: state['semantic_map'][sem_id] raises KeyError
             [events |-> << >>,
              gate |-> NoGate, history |-> h, stepped |-> FALSE,
              result |-> mk_result("raise", FALSE, "KeyError", NoReport)]
        ELSE
        LET coords == semantic_map[call.sem_id].click_coords
            answer == verify_input(coords, state.screenshot, density)
            asked == << mk_event("verify_input", coords, "") >>
        IN  IF gate_open(answer.is_valid)
            THEN IF backend_raises
                 THEN [events |-> asked
                          \o << Head(dispatch(call.action_type, call.text, coords)) >>,
                       gate |-> answer, history |-> h, stepped |-> FALSE,
                       result |-> mk_result("raise", FALSE, "FailSafeException", NoReport)]
                 ELSE [events |-> asked
                          \o dispatch(call.action_type, call.text, coords)
                          \o << mk_event("record_step", coords, call.sem_id) >>
                          \o log_snapshot("ACTION"),
                       gate |-> answer,
                       history |-> record_step(h, call.sem_id, state.meta.title),
                       stepped |-> TRUE,
                       result |-> mk_result("return", TRUE, NoError, NoReport)]
            ELSE [events |-> asked \o log_snapshot("WARNING"),
                  gate |-> answer, history |-> h, stepped |-> FALSE,
                  result |-> mk_result("return", FALSE, NoError, NoReport)]

\* line 109 and on: an exception of get_full_state leaves execute_action at
\* line 109; otherwise lines 110-131 run on the state it returned
execute_action(got, call, h, density, backend_raises) ==
    IF got.kind = "raise"
    THEN [events |-> << >>, gate |-> NoGate, history |-> h, stepped |-> FALSE,
          result |-> mk_result("raise", FALSE, got.error, NoReport)]
    ELSE execute_action_on(got.value, call, h, density, backend_raises)

\* f"{conf:.2f}" of a confidence in hundredths
format_2f(c) ==
    ToString(c \div 100) \o "." \o ToString((c % 100) \div 10) \o ToString(c % 10)

\* str() of a pair of integers
format_coords(xy) == "(" \o ToString(xy[1]) \o ", " \o ToString(xy[2]) \o ")"

\* lines 151-154: one row of the table, with the defaults of data.get
scene_row(sem_id, data) ==
    "| " \o sem_id
    \o " | " \o (IF "text" \in DOMAIN data THEN data.text ELSE "N/A")
    \o " | " \o format_2f(IF "confidence" \in DOMAIN data THEN data.confidence ELSE 0)
    \o " | " \o format_coords(IF "click_coords" \in DOMAIN data
                              THEN data.click_coords ELSE << 0, 0 >>)
    \o " |"

\* lines 142-159: the report, as its lines; the rows come in the order of the
\* dict, which the model does not keep, so they are a set
scene_description(meta, semantic_map) ==
    [head |-> << "# Desktop Scene Report",
                 "**Window Title:** " \o meta.title,
                 "**Resolution:** " \o ToString(meta.rect.w) \o "x" \o ToString(meta.rect.h),
                 "",
                 "| ID | Text | Confidence | Coordinates |",
                 "| :--- | :--- | :--- | :--- |" >>,
     rows |-> { scene_row(id, semantic_map[id]) : id \in DOMAIN semantic_map },
     tail |-> << "",
                 "## Script Status",
                 "- [ ] Action Required: Provide next semantic ID to interact with." >>]

\* the maps a caller hands to generate_scene_description
SceneMaps == ActionMaps \cup { EmptyMap }

\* everything but the playbook and the caller's position in a method
oracle_vars == << window, db, self_ocr, pc, call_vars, queue, worker_vars,
                 observed, hash_in, hash_out, store_vars, prev, late_vars >>

\* oracle.execute_action(sem_id, action_type, text) is called
execute_action_call(sem_id, action_type, text) ==
    /\ epc = "idle"
    /\ pc = "idle"
    /\ steps < MaxActions
    /\ epc' = "call"
    /\ ecall' = mk_call("execute_action", sem_id, action_type, text, FALSE, EmptyMap)
    /\ UNCHANGED << eresult, events, gate, last_outcome, oracle_vars, playbook_vars >>

\* oracle.generate_scene_description(semantic_map) is called; line 135 sends a
\* call without a map to get_full_state and one with a map to the backend
scene_description_call(with_map, semantic_map) ==
    /\ epc = "idle"
    /\ pc = "idle"
    /\ epc' = IF with_map THEN "query" ELSE "call"
    /\ ecall' = mk_call("generate_scene_description", "", "", NoText, with_map,
                        IF with_map THEN semantic_map ELSE EmptyMap)
    /\ UNCHANGED << eresult, events, gate, last_outcome, oracle_vars, playbook_vars >>

\* lines 109 and 136: self.get_full_state(), under the watchdog
call_get_full_state ==
    /\ epc = "call"
    /\ wrapper_start([force_refresh |-> FALSE])

\* the vision pass of a cycle on a screen that shows no text or the label
\* "Login:", read with confidence
gfs_analyze_login ==
    /\ gfs_analyze
    /\ cycle'.low = {}
    /\ TrackedId \notin cycle'.high

\* lines 109-131 once get_full_state has returned or raised
execute_action_finish(density, backend_raises) ==
    /\ epc = "call"
    /\ ecall.op = "execute_action"
    /\ pc = "done"
    /\ LET did == execute_action(outcome, ecall, history, density, backend_raises)
       IN  /\ eresult' = did.result
           /\ events' = did.events
           /\ gate' = did.gate
           /\ history' = did.history
           /\ journal' = IF did.stepped THEN _persist(did.history) ELSE journal
           /\ recorded' = IF did.stepped
                          THEN Append(recorded,
                                      mk_step(ecall.sem_id, outcome.value.meta.title))
                          ELSE recorded
           /\ steps' = IF did.stepped THEN steps + 1 ELSE steps
           /\ resume' = IF did.stepped THEN NoResume ELSE resume
    /\ epc' = "returned"
    /\ UNCHANGED << ecall, last_outcome, retained, restarted, oracle_vars >>

\* lines 136-159 once get_full_state has returned or raised
scene_description_finish ==
    /\ epc = "call"
    /\ ecall.op = "generate_scene_description"
    /\ pc = "done"
    /\ eresult' = IF outcome.kind = "raise"
                  THEN mk_result("raise", FALSE, outcome.error, NoReport)
                  ELSE mk_result("return", TRUE, NoError,
                                 scene_description(outcome.value.meta,
                                                   outcome.value.semantic_map))
    /\ epc' = "returned"
    /\ UNCHANGED << ecall, events, gate, last_outcome, oracle_vars, playbook_vars >>

\* lines 140-159: self.backend.get_active_window_meta() in the caller's own
\* process, then the report
scene_description_meta ==
    /\ epc = "query"
    /\ \E query_fails \in BOOLEAN :
        eresult' = mk_result("return", TRUE, NoError,
                             scene_description(
                                 get_active_window_meta(window, query_fails),
                                 ecall.map))
    /\ events' = << mk_event("get_active_window_meta", << 0, 0 >>, "") >>
    /\ epc' = "returned"
    /\ UNCHANGED << ecall, gate, last_outcome, oracle_vars, playbook_vars >>

\* line 140: the structural query of the OS never returns
scene_description_meta_hangs ==
    /\ epc = "query"
    /\ events' = << mk_event("get_active_window_meta", << 0, 0 >>, "") >>
    /\ epc' = "hung"
    /\ UNCHANGED << ecall, eresult, gate, last_outcome, oracle_vars, playbook_vars >>

\* how the execute_action call that has ended came out
outcome_of_call ==
    CASE eresult.kind = "raise" -> "raise"
      [] eresult.kind = "return" /\ eresult.ok -> "Success"
      [] eresult.kind = "return" /\ ~ eresult.ok /\ gate.checked -> "VisualMismatch"
      [] OTHER -> "IdentificationFailure"

\* the method's caller takes the result and goes on; the history of the call
\* ends here
core_returns ==
    /\ epc = "returned"
    /\ epc' = "idle"
    /\ last_outcome' = IF ecall.op = "execute_action" /\ eresult.kind = "return"
                       THEN [kind |-> outcome_of_call, ok |-> eresult.ok]
                       ELSE last_outcome
    /\ ecall' = NoCall
    /\ eresult' = NoResult
    /\ events' = << >>
    /\ gate' = NoGate
    /\ pc' = "idle"
    /\ args' = [force_refresh |-> FALSE]
    /\ item' = NoItem
    /\ outcome' = NoOutcome
    /\ msg' = NoItem
    /\ proc' = "none"
    /\ started' = 0
    /\ terminate_calls' = 0
    /\ func_calls' = 0
    /\ analyze_calls' = 0
    /\ timeout_at' = "none"
    /\ cycle' = NoCycle
    /\ queue' = << >>
    /\ UNCHANGED << sigterm, wpc, frame, db, window, self_ocr, observed,
                    hash_in, hash_out, store_vars, prev, playbook_vars,
                    late_vars >>

-----------------------------------------------------------------------------
(* generate_hash on its own *)

hash_first ==
    /\ hash_in[1] # NoMeta
    /\ hash_out[1] = ""
    /\ hash_out' = [hash_out EXCEPT ![1] = generate_hash(hash_in[1])]
    /\ UNCHANGED << window, db, self_ocr, pc, call_vars, queue, worker_vars,
                    observed, hash_in, more_vars >>

hash_second ==
    /\ hash_in[2] # NoMeta
    /\ hash_out[2] = ""
    /\ hash_out' = [hash_out EXCEPT ![2] = generate_hash(hash_in[2])]
    /\ UNCHANGED << window, db, self_ocr, pc, call_vars, queue, worker_vars,
                    observed, hash_in, more_vars >>

-----------------------------------------------------------------------------
(* persist_map statement by statement, in a process that may be killed:      *)
(* src/src/memory/persistence.py lines 36-56.  SQLite keeps the rows an open *)
(* transaction has written apart from the table until COMMIT, shows other    *)
(* connections the committed table only, and discards them when the          *)
(* connection's process dies or the transaction is rolled back.              *)

\* everything persist_map leaves alone but the table
txn_others ==
    << window, self_ocr, pc, call_vars, queue, worker_vars, observed, hash_in,
       hash_out, playbook_vars, store_vars, prev, action_vars, verify_in,
       engines >>

\* the maps given to persist_map: one or two well-formed elements, new
\* offsets for a stored id, and a map whose second element lacks a key
PersistMaps ==
    { "submit" :> full_element(50, 60),
      "submit" :> full_element(70, 80),
      ("username" :> full_element(50, 60)) @@ ("password" :> full_element(780, 580)),
      ("username" :> full_element(55, 65)) @@ ("submit" :> full_element(50, 60)),
      ("username" :> full_element(50, 60)) @@ ("submit" :> rel_element(50, 60)) }

\* line 41: sqlite3.connect(self.db_path) and the `with` block is entered
persist_map_begin(fingerprint, semantic_map) ==
    /\ txn.pc = "none"
    /\ txn' = [NoTxn EXCEPT !.pc = "loop",
                            !.fingerprint = fingerprint,
                            !.semantic_map = semantic_map,
                            !.todo = DOMAIN semantic_map,
                            !.before = db]
    /\ UNCHANGED << db, txn_others >>

\* one INSERT OR REPLACE whose row is visible at once (no transaction)
persist_map_insert_autocommit ==
    /\ txn.pc = "loop"
    /\ \E id \in txn.todo :
        LET data == txn.semantic_map[id]
        IN  IF persist_map_keys \subseteq DOMAIN data
            THEN /\ db' = { r \in db : ~ (r.fingerprint = txn.fingerprint
                                           /\ r.sem_id = id) }
                           \cup { mk_row(txn.fingerprint, id, data) }
                 /\ txn' = [txn EXCEPT !.todo = txn.todo \ {id}]
            ELSE /\ db' = db
                 /\ txn' = [txn EXCEPT !.pc = "raised", !.error = "KeyError"]
    /\ UNCHANGED txn_others

\* lines 42-55, one turn of the loop: data['click_coords'] (line 46), then
\* INSERT OR REPLACE inside the open transaction.  A KeyError leaves the
\* `with` block, whose exit rolls the transaction back.
persist_map_insert ==
    /\ txn.pc = "loop"
    /\ \E id \in txn.todo :
        LET data == txn.semantic_map[id]
        IN  IF persist_map_keys \subseteq DOMAIN data
            THEN txn' = [txn EXCEPT
                            !.todo = txn.todo \ {id},
                            !.written = { r \in txn.written : r.sem_id # id }
                                        \cup { mk_row(txn.fingerprint, id, data) }]
            ELSE txn' = [txn EXCEPT !.pc = "raised", !.error = "KeyError",
                                    !.lost = txn.written, !.written = {}]
    /\ UNCHANGED << db, txn_others >>

\* line 56: conn.commit() after the loop; each written row replaces the row
\* of the same (fingerprint, sem_id)
persist_map_commit ==
    /\ txn.pc = "loop"
    /\ txn.todo = {}
    /\ db' = { r \in db : ~ (r.fingerprint = txn.fingerprint
                              /\ r.sem_id \in { w.sem_id : w \in txn.written }) }
              \cup txn.written
    /\ txn' = [txn EXCEPT !.pc = "done", !.written = {}]
    /\ UNCHANGED txn_others

\* the process inside persist_map is killed before its COMMIT: what the
\* transaction wrote is discarded
persist_map_killed ==
    /\ txn.pc = "loop"
    /\ txn' = [txn EXCEPT !.pc = "killed", !.lost = txn.written, !.written = {}]
    /\ UNCHANGED << db, txn_others >>

\* the call is over (returned, raised or abandoned); another may follow
persist_map_over ==
    /\ txn.pc \in {"done", "raised", "killed"}
    /\ txn' = NoTxn
    /\ UNCHANGED << db, txn_others >>

-----------------------------------------------------------------------------
(* verify_input on its own *)

NoVerifyIn ==
    [given |-> FALSE, coords |-> << 0, 0 >>, screenshot |-> NoShot,
     density |-> 0]

\* coordinates inside the screenshot, near its edges and beyond them
VerifyXs == {-50, -30, 40, 829, 830}
VerifyYs == {-50, 100, 630}

VerifyInputs ==
    { [given |-> TRUE, coords |-> << x, y >>,
       screenshot |-> capture_window(mk_rect(100, 100, 800, 600)),
       density |-> d] : x \in VerifyXs, y \in VerifyYs, d \in Densities }

\* verifier.verify_input(coords, screenshot_np)
verifier_verify_input ==
    /\ verify_in.given
    /\ ~ gate.checked
    /\ gate' = verify_input(verify_in.coords, verify_in.screenshot,
                            verify_in.density)
    /\ UNCHANGED << window, db, self_ocr, pc, call_vars, queue, worker_vars,
                    observed, hash_in, hash_out, playbook_vars, store_vars,
                    prev, epc, ecall, eresult, events, last_outcome,
                    late_vars >>

-----------------------------------------------------------------------------
(* Specifications *)

\* DesktopOracle() on a fresh database: _ocr is None, the table is empty
BaseInit ==
    /\ window = mk_meta("App", 7, mk_rect(100, 100, 800, 600))
    /\ db = {}
    /\ self_ocr = FALSE
    /\ pc = "idle"
    /\ args = [force_refresh |-> FALSE]
    /\ queue = << >>
    /\ item = NoItem
    /\ outcome = NoOutcome
    /\ proc = "none"
    /\ sigterm = FALSE
    /\ wpc = "dead"
    /\ frame = NoFrame
    /\ msg = NoItem
    /\ started = 0
    /\ terminate_calls = 0
    /\ func_calls = 0
    /\ analyze_calls = 0
    /\ timeout_at = "none"
    /\ cycle = NoCycle
    /\ observed = NoObserved
    /\ hash_out = << "", "" >>
    /\ history = << >>
    /\ journal = << >>
    /\ resume = NoResume
    /\ recorded = << >>
    /\ retained = << >>
    /\ restarted = FALSE
    /\ steps = 0
    /\ recalled = NoRecall
    /\ forgotten = {}
    /\ persisted = {}
    /\ prev = NoMeta
    /\ epc = "idle"
    /\ ecall = NoCall
    /\ eresult = NoResult
    /\ events = << >>
    /\ gate = NoGate
    /\ last_outcome = NoLast
    /\ txn = NoTxn
    /\ engines = 0

Init ==
    /\ BaseInit
    /\ hash_in = << NoMeta, NoMeta >>
    /\ verify_in = NoVerifyIn

\* the steps of a call in progress, on both sides of the queue
WrapperSteps ==
    \/ queue_get
    \/ queue_get_Empty
    \/ join_and_deliver
    \/ terminate
    \/ join_and_raise_timeout
    \/ worker_calls_func
    \/ worker_put
    \/ worker_exits
    \/ worker_killed

Wrapper ==
    \/ \E a \in Args : wrapper_start(a)
    \/ WrapperSteps
    \/ caller_continues

\* the orchestrator: get_full_state under the watchdog, the store, the desktop
Next ==
    \/ Wrapper
    \/ gfs_meta
    \/ gfs_meta_hangs
    \/ gfs_recall_capture
    \/ gfs_analyze
    \/ gfs_persist
    \/ gfs_hit
    \/ \E fp \in Fingerprints, m \in ClientMaps : client_persist_map(fp, m)
    \/ \E fp \in Fingerprints : client_forget(fp)
    \/ window_changes

Spec == Init /\ [][Next]_vars

\* the watchdog around an arbitrary call
WatchdogNext ==
    \/ Wrapper
    \/ \E v \in Values : func_returns(v)
    \/ \E e \in Errors : func_raises(e)
    \/ func_hangs
    \/ func_ends_process

WatchdogSpec == Init /\ [][WatchdogNext]_vars

\* The watchdog with the progress its code can count on.  The caller is never
\* stopped for good outside its two waits: queue.get(timeout=seconds) returns
\* an item that is there, or raises Empty when the deadline passes with the
\* queue empty, and process.join() returns once the worker is gone; the
\* lines between them run.  A worker that has put its tuple returns from
\* worker() and its process ends, and a worker sent SIGTERM ends.  Nothing
\* is assumed of func: the worker may stay in it forever.
WatchdogFairness ==
    /\ WF_vars(queue_get)
    /\ WF_vars(queue_get_Empty)
    /\ WF_vars(join_and_deliver)
    /\ WF_vars(terminate)
    /\ WF_vars(join_and_raise_timeout)
    /\ WF_vars(worker_exits)
    /\ WF_vars(worker_killed)

WatchdogFairSpec == Init /\ [][WatchdogNext]_vars /\ WatchdogFairness

\* generate_hash applied to two WindowMeta values
HashInit ==
    /\ BaseInit
    /\ hash_in \in Metas \X Metas
    /\ verify_in = NoVerifyIn

HashNext == hash_first \/ hash_second

HashSpec == HashInit /\ [][HashNext]_vars

\* verify_input given coordinates, a screenshot and the density of the patch
GateInit ==
    /\ BaseInit
    /\ hash_in = << NoMeta, NoMeta >>
    /\ verify_in \in VerifyInputs

GateNext == verifier_verify_input

GateSpec == GateInit /\ [][GateNext]_vars

\* the maps of a direct caller that hold the tracked element alone
TrackedMaps == { m \in ClientMaps : DOMAIN m = {TrackedId} }

\* consecutive get_full_state cycles on a desktop whose window moves and
\* resizes, over a store that also gets entries directly
CycleNext ==
    \/ \E a \in Args : wrapper_start(a)
    \/ WrapperSteps
    \/ next_cycle
    \/ gfs_meta
    \/ gfs_meta_hangs
    \/ gfs_recall_capture
    \/ gfs_analyze
    \/ gfs_persist
    \/ gfs_hit
    \/ \E fp \in Fingerprints, m \in TrackedMaps : client_persist_map(fp, m)
    \/ window_changes

CycleSpec == Init /\ [][CycleNext]_vars

\* consecutive get_full_state calls of one DesktopOracle, some of them forced
\* to refresh, over a store that also gets entries directly
EngineNext ==
    \/ \E a \in Args : engines < MaxCalls /\ wrapper_start(a)
    \/ WrapperSteps
    \/ next_call
    \/ gfs_meta
    \/ gfs_meta_hangs
    \/ gfs_recall_capture
    \/ gfs_analyze_login
    \/ gfs_persist
    \/ gfs_hit
    \/ \E fp \in Fingerprints, m \in TrackedMaps :
            pc = "idle" /\ client_persist_map(fp, m)

EngineSpec == Init /\ [][EngineNext]_vars

\* execute_action and generate_scene_description on a desktop whose window
\* moves and resizes, over a store that holds the map of a login form
ActionNext ==
    \/ \E c \in ActionCalls : execute_action_call(c[1], c[2], c[3])
    \/ \E with_map \in BOOLEAN, m \in SceneMaps :
            scene_description_call(with_map, m)
    \/ call_get_full_state
    \/ WrapperSteps
    \/ gfs_meta
    \/ gfs_meta_hangs
    \/ gfs_recall_capture
    \/ gfs_analyze_login
    \/ gfs_persist
    \/ gfs_hit
    \/ \E density \in Densities, backend_raises \in BOOLEAN :
            execute_action_finish(density, backend_raises)
    \/ scene_description_finish
    \/ scene_description_meta
    \/ scene_description_meta_hangs
    \/ core_returns
    \/ \E fp \in Fingerprints, m \in ActionMaps :
            epc = "idle" /\ client_persist_map(fp, m)
    \/ epc = "idle" /\ window_changes

ActionSpec == Init /\ [][ActionNext]_vars

\* the store under direct calls
StoreNext ==
    \/ \E fp \in Fingerprints, m \in ClientMaps : memory_persist_map(fp, m)
    \/ \E fp \in Fingerprints : memory_recall_all(fp)
    \/ \E fp \in Fingerprints : memory_forget(fp)

StoreSpec == Init /\ [][StoreNext]_vars

\* persist_map calls, one after another, in processes that may be killed
PersistNext ==
    \/ \E fp \in Fingerprints, m \in PersistMaps : persist_map_begin(fp, m)
    \/ persist_map_insert
    \/ persist_map_commit
    \/ persist_map_killed
    \/ persist_map_over

PersistSpec == Init /\ [][PersistNext]_vars

\* the playbook over restarts of the process
PlaybookNext ==
    \/ \E sem_id \in StepIds, view_name \in StepViews :
            playbook_record_step(sem_id, view_name)
    \/ playbook_resume
    \/ playbook_restart

PlaybookSpec == Init /\ [][PlaybookNext]_vars

-----------------------------------------------------------------------------
(* The claims *)

\* the semantic map wrapper() returned to the caller of get_full_state
returned_map == outcome.value.semantic_map

\* the cycle has ended and wrapper() has returned a state to its caller
cycle_returned == pc = "done" /\ outcome.kind = "return"

\* C1: in a get_full_state call without force_refresh whose fingerprint had a
\* non-empty stored entry when the window was read, analyze_ui is never
\* invoked, and the map returned holds exactly the stored ids, each at its
\* stored offset plus the window's origin.
C1_CacheHitShortCircuit ==
    (cycle.path # "none" /\ ~ args.force_refresh /\ cycle.stored # {})
    => /\ analyze_calls = 0
       /\ cycle_returned
          => /\ DOMAIN returned_map = { r.sem_id : r \in cycle.stored }
             /\ \A r \in cycle.stored :
                    returned_map[r.sem_id].click_coords =
                        << r.rel_x + cycle.meta.rect.x, r.rel_y + cycle.meta.rect.y >>

\* a cycle returned on the hit path for a fingerprint with stored rows
C1_Witness ==
    /\ cycle_returned
    /\ cycle.path = "hit"
    /\ ~ args.force_refresh
    /\ cycle.stored # {}
    /\ DOMAIN returned_map # {}

\* C2: after a get_full_state call that took the miss path and was not cut
\* short by the deadline, the call returned normally, every id reported with
\* confidence >= 0.8 is in the returned map and in the store under the
\* window's fingerprint, and every id reported only below 0.8 is in neither.
C2_CacheMissPersistence ==
    (pc = "done" /\ cycle.path = "miss" /\ timeout_at = "none")
    => /\ outcome.kind = "return"
       /\ \A id \in cycle.high :
            /\ id \in DOMAIN returned_map
            /\ \E r \in rows_of(db, cycle.win_hash) : r.sem_id = id
       /\ \A id \in cycle.low \ cycle.high :
            /\ id \notin DOMAIN returned_map
            /\ ~ \E r \in rows_of(db, cycle.win_hash) : r.sem_id = id

\* C3: a hit cycle for the fingerprint under which an earlier miss cycle
\* observed the tracked element at absolute (ax, ay) with window origin
\* (x0, y0) returns that element at (ax - x0 + x1, ay - y0 + y1), (x1, y1)
\* being the window origin of the hit cycle.
C3_RelativeRoundTrip ==
    (cycle_returned /\ cycle.path = "hit" /\ observed.fingerprint = cycle.win_hash)
    => /\ TrackedId \in DOMAIN returned_map
       /\ returned_map[TrackedId].click_coords =
            << observed.ax - observed.x0 + cycle.meta.rect.x,
               observed.ay - observed.y0 + cycle.meta.rect.y >>

\* C4: persist_map overwrites the whole entry: after a persist_map call that
\* did not raise, made directly or by the fresh pass of a cycle, recall_all of
\* that fingerprint returns exactly the ids of the call.
C4_FullReplacement ==
    [][ /\ \A fp \in Fingerprints, m \in ClientMaps :
            (client_persist_map(fp, m) /\ ~ persist_map_raises(m))
            => DOMAIN recall_all(db', fp).map = DOMAIN m
        /\ (gfs_persist /\ ~ persist_map_raises(frame.rel_map))
            => DOMAIN recall_all(db', frame.win_hash).map = DOMAIN frame.rel_map
      ]_vars

\* both fingerprints have been taken
hashed == hash_out[1] # "" /\ hash_out[2] # ""

\* C5: generate_hash gives two WindowMeta values the same fingerprint exactly
\* when their title, width and height are equal, whatever their x, y and pid.
C5_FingerprintPurity ==
    hashed
    => ( hash_out[1] = hash_out[2]
         <=> /\ hash_in[1].title = hash_in[2].title
             /\ hash_in[1].rect.w = hash_in[2].rect.w
             /\ hash_in[1].rect.h = hash_in[2].rect.h )

\* two windows of the same title and size at different places, one fingerprint
C5_Witness ==
    /\ hashed
    /\ hash_in[1].rect.x # hash_in[2].rect.x
    /\ hash_in[1].title = hash_in[2].title
    /\ hash_in[1].rect.w = hash_in[2].rect.w
    /\ hash_in[1].rect.h = hash_in[2].rect.h
    /\ hash_out[1] = hash_out[2]

\* C6: when queue.get timed out, wrapper() raises WatchdogTimeoutError, having
\* started one process, called terminate() once and invoked the wrapped call
\* at most once; it returns no value.
C6_WatchdogTimeout ==
    (pc = "done" /\ timeout_at # "none")
    => /\ outcome = mk_outcome("raise", NoState, "WatchdogTimeoutError")
       /\ started = 1
       /\ terminate_calls = 1
       /\ func_calls <= 1

\* the deadline expired on a hung call and the worker was killed
C6_Witness ==
    /\ pc = "done"
    /\ timeout_at = "hung"
    /\ proc = "killed"
    /\ outcome.error = "WatchdogTimeoutError"

\* C7: when the wrapper received (False, E) from the worker before the
\* deadline, it raises E to its caller and never calls terminate().
C7_ErrorPassThrough ==
    (pc = "done" /\ timeout_at = "none" /\ ~ item.success /\ item.error # NoError)
    => /\ outcome = mk_outcome("raise", NoState, item.error)
       /\ terminate_calls = 0

\* C8: when the wrapped call returned v and the deadline did not expire,
\* wrapper() returns v and raises nothing.
C8_SuccessPassThrough ==
    (pc = "done" /\ timeout_at = "none" /\ msg.success)
    => outcome = mk_outcome("return", msg.value, NoError)

\* a value of the wrapped call reached the caller
C8_Witness ==
    /\ pc = "done"
    /\ timeout_at = "none"
    /\ msg.success
    /\ outcome.kind = "return"
    /\ outcome.value \in Values

\* C9: whenever wrapper() has returned or raised, the worker process of the
\* call no longer runs.
C9_NoLeakedWorker ==
    pc \in {"done", "idle"} => (proc # "alive" /\ wpc = "dead")

\* a cycle timed out after its worker had begun the miss branch, and the
\* worker was killed before wrapper() raised
C9_Witness ==
    /\ pc = "done"
    /\ timeout_at # "none"
    /\ cycle.path = "miss"
    /\ proc = "killed"

\* C10: when the deadline expires while get_full_state is obtaining the window
\* metadata, the caller gets a state whose meta is the fallback WindowMeta and
\* no WatchdogTimeoutError.
C10_FallbackOnWatchdogTimeout ==
    (pc = "done" /\ timeout_at \in {"func", "hung"})
    => /\ outcome.kind = "return"
       /\ outcome.value.meta = fallback_meta

\* C11: when the backend's structural query raised during a get_full_state
\* call that the deadline did not cut short, the call returns normally, the
\* meta it returns is the fallback WindowMeta, and the fingerprint of the
\* cycle is the fallback's.
C11_FallbackOnBackendFailure ==
    (pc = "done" /\ cycle.meta = fallback_meta /\ timeout_at = "none")
    => /\ outcome.kind = "return"
       /\ outcome.value.meta = fallback_meta
       /\ cycle.win_hash = generate_hash(fallback_meta)

\* the last n elements of the sequence q, all of q when it has fewer
LastOf(q, n) == IF Len(q) <= n THEN q ELSE SubSeq(q, Len(q) - n + 1, Len(q))

\* C16: after n record_step calls on one RecoveryPlaybook the in-memory
\* history holds exactly the last min(n, 10) records in call order, and so
\* does the journal file once n >= 1; neither is ever longer than 10.
C16_JournalBound ==
    /\ Len(history) <= JournalCap
    /\ Len(journal) <= JournalCap
    /\ history = LastOf(recorded, JournalCap)
    /\ recorded # << >> => journal = history

\* eleven records were given to one playbook and the first was evicted
C16_Witness ==
    /\ Len(recorded) = JournalCap + 1
    /\ Len(history) = JournalCap
    /\ history[1] = recorded[2]
    /\ history[1] # recorded[1]
    /\ journal = history

\* C17: after a restart that found records in the journal file,
\* generate_resume_instructions renders those records and the records given
\* since, and the file holds the last 10 of the records retained before the
\* restart followed by the records given since.
C17_JournalSurvivesRestart ==
    (restarted /\ retained # << >>)
    => /\ resume.given
          => resume.lines = resume_guide(LastOf(retained \o recorded, JournalCap))
       /\ journal = LastOf(retained \o recorded, JournalCap)

\* C20: forget(fp) leaves the rows of every other fingerprint as they were;
\* recall_all(fp) reports absent for every fingerprint that was forgotten and
\* not persisted since, and for every fingerprint never persisted.
C20_Invalidate ==
    [][ /\ \A fp \in Fingerprints :
            memory_forget(fp)
            => \A other \in Fingerprints \ {fp} :
                    rows_of(db', other) = rows_of(db, other)
        /\ \A fp \in forgotten' \cup (Fingerprints \ persisted') :
            recall_all(db', fp) = NoCache
        /\ (recalled'.given
             /\ recalled'.fingerprint \in forgotten' \cup (Fingerprints \ persisted'))
            => recalled'.result.none
      ]_vars

\* a fingerprint that held an entry was forgotten and recall_all reported it
\* absent, while another fingerprint still holds its entry
C20_Witness ==
    /\ recalled.given
    /\ recalled.fingerprint \in forgotten \cap persisted
    /\ recalled.result.none
    /\ \E other \in Fingerprints \ {recalled.fingerprint} :
            rows_of(db, other) # {}

\* two WindowMeta values of the same title and size
same_title_and_size(a, b) ==
    a.title = b.title /\ a.rect.w = b.rect.w /\ a.rect.h = b.rect.h

\* the cycle in progress has taken its branch and follows an earlier cycle
second_cycle_branched == cycle.path \in {"hit", "miss"} /\ prev # NoMeta

dispatched(ev) ==
    { i \in DOMAIN ev :
        ev[i].op \in {"backend.click", "backend.type_text",
                      "pyautogui.click", "pyautogui.write"} }

\* the positions in ev of the audit entries
audit_entries(ev) == { i \in DOMAIN ev : ev[i].op = "log_snapshot" }

\* the step that takes execute_action from get_full_state's answer to its end
execute_action_ends ==
    epc = "call" /\ ecall.op = "execute_action" /\ epc' = "returned"

\* C12: an execute_action call whose id is absent from the map get_full_state
\* returned returns False, makes no Backend call, and leaves the playbook's
\* history and the journal file as they were, as does every earlier step of
\* the call.
C12_IdentificationFailureNoSideEffect ==
    [][ /\ (execute_action_ends /\ outcome.kind = "return"
                /\ ecall.sem_id \notin DOMAIN returned_map)
            => /\ eresult' = mk_result("return", FALSE, NoError, NoReport)
               /\ dispatched(events') = {}
               /\ journal' = journal
               /\ history' = history
        /\ (epc = "call" /\ ecall.op = "execute_action" /\ epc' = "call")
            => (journal' = journal /\ history' = history /\ events' = << >>)
      ]_vars

\* execute_action("login") on the map of username and password, with a
\* record in the journal, has returned False
C12_Witness ==
    /\ epc = "returned"
    /\ ecall.op = "execute_action"
    /\ ecall.sem_id = "login"
    /\ outcome.kind = "return"
    /\ DOMAIN returned_map = {"username", "password"}
    /\ eresult.kind = "return"
    /\ ~ eresult.ok
    /\ dispatched(events) = {}
    /\ journal # << >>

\* C13: whatever execute_action has dispatched to the Backend, its id was in
\* the map and verify_input had been asked before and had accepted the
\* element's coordinates; and a call whose gate rejects returns False,
\* dispatches nothing and leaves history and journal as they were.
C13_ActionGating ==
    [][ /\ \A i \in dispatched(events') :
            /\ ecall'.sem_id \in DOMAIN outcome'.value.semantic_map
            /\ gate'.checked
            /\ gate'.is_valid
            /\ gate'.coords = outcome'.value.semantic_map[ecall'.sem_id].click_coords
            /\ \E j \in 1..(i - 1) : events'[j].op = "verify_input"
        /\ (execute_action_ends /\ gate'.checked /\ ~ gate'.is_valid)
            => /\ eresult' = mk_result("return", FALSE, NoError, NoReport)
               /\ dispatched(events') = {}
               /\ journal' = journal
               /\ history' = history
      ]_vars

\* the gate rejected a patch of pixels for its edge density: the call
\* returned False and nothing was dispatched
C13_Witness ==
    /\ epc = "returned"
    /\ ecall.op = "execute_action"
    /\ gate.checked
    /\ ~ gate.is_valid
    /\ ~ patch_empty(gate.patch)
    /\ gate.density = DensityHigh
    /\ ~ eresult.ok
    /\ dispatched(events) = {}

\* C14: the value execute_action returns tells its outcomes apart: when a
\* call and the call before it returned with different outcomes among
\* IdentificationFailure, VisualMismatch and Success, they returned
\* different values.
C14_DistinguishableOutcomes ==
    (/\ epc = "returned"
     /\ ecall.op = "execute_action"
     /\ eresult.kind = "return"
     /\ last_outcome.kind # "none"
     /\ last_outcome.kind # outcome_of_call)
    => last_outcome.ok # eresult.ok

\* C15: every execute_action call that has ended, by returning or by raising,
\* has written exactly one audit entry.
C15_OneAuditEntryPerAttempt ==
    (epc = "returned" /\ ecall.op = "execute_action")
    => Cardinality(audit_entries(events)) = 1

\* C18: no method of the core queries the window metadata in the caller's
\* own process, and no caller is blocked in that query.
C18_WatchdogCoverage ==
    /\ epc # "hung"
    /\ \A i \in DOMAIN events : events[i].op # "get_active_window_meta"

\* C21: verify_input accepts exactly when the patch is not empty and its
\* edge density is strictly above 0.02 and strictly below 0.25; a density of
\* exactly 0.02 or 0.25, a density outside the band and an empty patch are
\* all rejected.
C21_GateBand ==
    gate.checked
        => ( gate.is_valid
               <=> ( /\ ~ patch_empty(gate.patch)
                     /\ verify_in.density > 200
                     /\ verify_in.density < 2500 ) )

\* a patch of pixels whose density is exactly 0.02 was rejected
C21_Witness ==
    /\ gate.checked
    /\ ~ gate.is_valid
    /\ ~ patch_empty(gate.patch)
    /\ verify_in.density = 200

\* the positions in ev of the playbook's record_step calls
journal_appends(ev) == { i \in DOMAIN ev : ev[i].op = "record_step" }

\* C22: an execute_action call that returns True has appended exactly one
\* record to the playbook, holding the call's element id and the window
\* title of the state it acted on, written through to the journal file, and
\* has done so after every Backend call it made; a call that returns False
\* or raises, and every other step, leaves history and journal as they were.
C22_JournalTracksSuccesses ==
    [][ IF execute_action_ends
        THEN IF eresult'.kind = "return" /\ eresult'.ok
             THEN /\ history' = LastOf(Append(history,
                                    [id |-> ecall.sem_id,
                                     view |-> outcome.value.meta.title]),
                                    10)
                  /\ journal' = history'
                  /\ Cardinality(journal_appends(events')) = 1
                  /\ dispatched(events') # {}
                  /\ \A i \in dispatched(events'), j \in journal_appends(events') :
                        i < j
             ELSE /\ history' = history
                  /\ journal' = journal
                  /\ journal_appends(events') = {}
        ELSE history' = history /\ journal' = journal
      ]_vars

\* a second successful action has added its record behind the first one's
C22_Witness ==
    /\ epc = "returned"
    /\ ecall.op = "execute_action"
    /\ eresult.kind = "return"
    /\ eresult.ok
    /\ Len(history) = 2
    /\ history[2] = [id |-> ecall.sem_id, view |-> outcome.value.meta.title]
    /\ journal = history

\* the number of Backend calls of kind op in ev
backend_calls(ev, op) == Cardinality({ i \in DOMAIN ev : ev[i].op = op })

\* C23: an execute_action call that returns True with kind "type" has called
\* the Backend's type_text exactly once and not its click, and one that
\* returns True with kind "click" has called click exactly once and not
\* type_text.
C23_DispatchByKind ==
    (/\ epc = "returned"
     /\ ecall.op = "execute_action"
     /\ eresult.kind = "return"
     /\ eresult.ok)
    => IF ecall.action_type = "type"
       THEN /\ backend_calls(events, "backend.type_text") = 1
            /\ backend_calls(events, "backend.click") = 0
       ELSE /\ backend_calls(events, "backend.click") = 1
            /\ backend_calls(events, "backend.type_text") = 0

\* C24: the patch verify_input inspects is centred, in the screenshot's own
\* pixel coordinates, on the element's offset from the window's top-left
\* corner, wherever on the screen the window is.
C24_GateInspectsElement ==
    (/\ epc = "returned"
     /\ ecall.op = "execute_action"
     /\ gate.checked)
    => LET element == returned_map[ecall.sem_id]
           rect == outcome.value.meta.rect
       IN  gate.coords = << element.click_coords[1] - rect.x,
                            element.click_coords[2] - rect.y >>

\* whether every element of semantic_map carries a confidence the vision
\* pass of this cycle reported for its id and kept
as_reported(semantic_map) ==
    \A id \in DOMAIN semantic_map :
        /\ id \in cycle.high
        /\ semantic_map[id].confidence \in { c \in Confidences : c >= 80 }

C27_EngineBuiltOnce == engines <= 1

\* C26: whenever a persist_map call is in progress, has ended or was killed,
\* recall_all of its fingerprint gives either what it gave before the call or
\* the entry with every element of the call's map written; it never gives an
\* entry with only some of them written.
C26_PersistAllOrNothing ==
    txn.pc # "none"
        => LET fp == txn.fingerprint
               m == txn.semantic_map
               now == recall_all(db, fp)
           IN  \/ now = recall_all(txn.before, fp)
               \/ /\ ~ now.none
                  /\ \A id \in DOMAIN m :
                        /\ persist_map_keys \subseteq DOMAIN m[id]
                        /\ id \in DOMAIN now.map
                        /\ now.map[id] = [rel_x |-> m[id].rel_x,
                                          rel_y |-> m[id].rel_y]
                  /\ \A id \in DOMAIN now.map \ DOMAIN m :
                        /\ ~ recall_all(txn.before, fp).none
                        /\ id \in DOMAIN recall_all(txn.before, fp).map
                        /\ now.map[id] = recall_all(txn.before, fp).map[id]

\* the process was killed after the INSERT of one element and before that
\* of the other, over an entry that held other offsets
C26_Witness ==
    /\ txn.pc = "killed"
    /\ txn.lost # {}
    /\ txn.todo # {}
    /\ recall_all(txn.before, txn.fingerprint) # NoCache
    /\ \E r \in txn.lost :
            /\ r.sem_id \in DOMAIN recall_all(db, txn.fingerprint).map
            /\ recall_all(db, txn.fingerprint).map[r.sem_id]
                    # [rel_x |-> r.rel_x, rel_y |-> r.rel_y]

\* C25: every call of a watchdog-wrapped function that has started gives its
\* caller a value or an exception in the end, whatever func does in the
\* worker: return, raise, never return, or end the process with nothing put.
C25_WatchdogTermination == (pc = "get") ~> (pc = "done")

\* the worker died inside func with nothing put; the deadline passed and the
\* caller got WatchdogTimeoutError
C25_Witness ==
    /\ pc = "done"
    /\ timeout_at = "dead"
    /\ proc = "exited"
    /\ queue = << >>
    /\ outcome = mk_outcome("raise", NoState, "WatchdogTimeoutError")

=============================================================================
